---- MODULE Spec2Model ----
(***************************************************************************)
(* electionguard-verify: the verification engine verify() of               *)
(* electionguard_verify/verify.py and the Invariants, Contests, Guardians  *)
(* helpers of electionguard_verify/utils.py.                               *)
(*                                                                         *)
(* verify() is one synchronous function.  It is modelled stage by stage:   *)
(* one action per Invariants set, each action running the whole stage      *)
(* (every ensure call of its loops, then validate and the early return).   *)
(* The arguments of verify() are immutable; an argument is bound in the    *)
(* model by the first stage that reads it, which yields the same runs as   *)
(* binding all of them at the call.                                        *)
(*                                                                         *)
(* Spec is one call of verify(); SpecInv is any sequence of calls on one   *)
(* Invariants object; SpecOrder is either of the two; SpecStop is one call *)
(* under an environment that raises a stop-early signal; SpecPair is two   *)
(* calls on artifacts that differ in the unused arguments only.            *)
(*                                                                         *)
(* The group is scaled down: p = 7, q = 3, r = 2, g = 2 (2 generates the   *)
(* subgroup {1, 2, 4} of order 3 of Z*_7).                                 *)
(***************************************************************************)
EXTENDS Integers, Sequences, FiniteSets, TLC

\* ------------------------------------------------------------------------
\* Fixed cryptographic constants (electionguard_verify/constants.py)
\* ------------------------------------------------------------------------
P == 7
Q == 3
R == 2
G == 2

\* ------------------------------------------------------------------------
\* Bounds of the model
\* ------------------------------------------------------------------------
MaxGuardians == 1
MaxBallots == 2
MaxShares == 1
MaxCalls == 4

\* ------------------------------------------------------------------------
\* Group arithmetic (electionguard.group, as verify.py uses it)
\* ------------------------------------------------------------------------
RECURSIVE Power(_, _)
Power(b, e) ==
    IF e = 0 THEN 1 ELSE (b * Power(b, e - 1)) % P

\* pow_p(b, e) = b^e mod p
pow_p(b, e) ==
    Power(b % P, e)

RECURSIVE mult_p(_)
\* mult_p(*elems): the product of the elements mod p, the empty product 1
mult_p(elems) ==
    IF elems = <<>> THEN 1 ELSE ((Head(elems) % P) * mult_p(Tail(elems))) % P

\* add_q(a, b) = (a + b) mod q
add_q(a, b) ==
    (a + b) % Q

\* int_to_p(1): the accumulators' multiplicative identity
int_to_p(x) ==
    x

\* ElementModP.is_valid_residue(): 0 < x < p and x^q mod p = 1
is_valid_residue(x) ==
    /\ 0 < x
    /\ x < P
    /\ Power(x, Q) = 1

\* ElementModQ.is_in_bounds(): 0 <= x < q
is_in_bounds(x) ==
    /\ 0 <= x
    /\ x < Q

RECURSIVE HashSum(_, _)
HashSum(elems, i) ==
    IF i > Len(elems) THEN 0
    ELSE (1 + (i % 2)) * elems[i] + HashSum(elems, i + 1)

\* hash_elems(*args): SHA-256 of the joined rendering of the arguments, reduced
\* into Z_q.  The model keeps what the checks rely on: a fixed function of the
\* ordered tuple, sensitive to every member and to their number, with values in Z_q.
hash_elems(elems) ==
    (Len(elems) + HashSum(elems, 1)) % Q

\* ------------------------------------------------------------------------
\* utils.py
\* ------------------------------------------------------------------------
\* Optional values are sequences of length 0 (None) or 1.
None == <<>>

Some(x) == <<x>>

\* Invariants.__init__: conditions = {}
EmptyConditions ==
    [l \in {} |-> TRUE]

\* A faulty ensure: a repeated label takes the new condition instead of the conjunction.
ensure_buggy_overwrite(conditions, invariant, condition) ==
    [l \in DOMAIN conditions \cup {invariant} |->
        IF l = invariant THEN condition ELSE conditions[l]]

\* A faulty ensure: a repeated label keeps the value recorded first.
ensure_buggy_keep_first(conditions, invariant, condition) ==
    [l \in DOMAIN conditions \cup {invariant} |->
        IF l \in DOMAIN conditions THEN conditions[l] ELSE condition]

\* Invariants.ensure: the conditions dict after the call
ensure(conditions, invariant, condition) ==
    [l \in DOMAIN conditions \cup {invariant} |->
        IF l = invariant
        THEN IF invariant \in DOMAIN conditions
             THEN conditions[invariant] /\ condition
             ELSE condition
        ELSE conditions[l]]

\* A faulty ensure: returns the label's accumulated value instead of the condition.
ensure_returns_buggy_accumulated(conditions, invariant, condition) ==
    ensure(conditions, invariant, condition)[invariant]

\* Invariants.ensure: the value the call returns
ensure_returns(conditions, invariant, condition) ==
    condition

\* A faulty validate: true when some recorded label is true.
validate_buggy_any(conditions) ==
    \E l \in DOMAIN conditions : conditions[l]

\* Invariants.validate: the conjunction of the recorded states
validate(conditions) ==
    \A l \in DOMAIN conditions : conditions[l]

\* Invariants.validate: the labels its error message lists
failed_labels(conditions) ==
    {l \in DOMAIN conditions : ~conditions[l]}

RECURSIVE ensure_all(_, _)
\* A stage's ensure calls, in program order: calls is a sequence of
\* <<invariant, condition>> pairs.
ensure_all(conditions, calls) ==
    IF calls = <<>> THEN conditions
    ELSE ensure_all(ensure(conditions, Head(calls)[1], Head(calls)[2]), Tail(calls))

\* get_first_el: the first element, or None if the list is empty
get_first_el(els) ==
    IF Len(els) > 0 THEN Some(els[1]) ELSE None

RECURSIVE Concat(_)
\* The calls of a for loop, given the calls of its body for each element in order.
Concat(calls) ==
    IF Len(calls) = 0 THEN <<>> ELSE Head(calls) \o Concat(Tail(calls))

RECURSIVE SeqsUpTo(_, _)
\* The sequences over S of length at most n.
SeqsUpTo(S, n) ==
    IF n = 0 THEN {<<>>}
    ELSE LET shorter == SeqsUpTo(S, n - 1)
         IN  shorter \cup {Append(s, x) : s \in shorter, x \in S}

\* ------------------------------------------------------------------------
\* State
\* ------------------------------------------------------------------------
VARIABLES
    pc,                          \* the stage verify() runs next, or "returned" / "raised"
    result,                      \* "none" while running, then "True", "False" or "raised"
    inv,                         \* title of each Invariants set constructed |-> its conditions
    validated,                   \* the validate() calls so far, in order: [title, validity]
    constants,                   \* argument constants: ElectionConstants
    context,                     \* argument context: CiphertextElectionContext
    description_crypto_hash,     \* argument description: crypto_hash()
    description_contests,        \* argument description: contests
    coefficient_validation_sets, \* argument coefficient_validation_sets
    ciphertext_ballots,          \* argument ciphertext_ballots
    tally_contests,              \* argument plaintext_tally: contests.values()
    tally_spoiled_ballots,       \* argument plaintext_tally: spoiled_ballots.values()
    obj,                         \* a free-standing Invariants object: its conditions
    call,                        \* the last call made on obj: its number n, its op, the op
                                 \* before it, its arguments and the value it returned
    history,                     \* the ensure calls made on obj so far: <<invariant, condition>>
    stop_early,                  \* the environment's stop-early signal: TRUE once raised
    devices,                     \* argument devices
    spoiled_ballots,             \* argument spoiled_ballots
    ciphertext_tally,            \* argument ciphertext_tally
    other                        \* another call of verify() on the same artifact but for
                                 \* these three arguments: its pc, result, inv, validated
                                 \* and its devices, spoiled_ballots and ciphertext_tally

\* The arguments of verify() that no line of it mentions.
unused ==
    <<devices, spoiled_ballots, ciphertext_tally>>

\* What verify() and Invariants neither read nor write.
unread ==
    <<stop_early, unused, other>>

vars ==
    <<pc, result, inv, validated, constants, context, description_crypto_hash,
      description_contests, coefficient_validation_sets, ciphertext_ballots,
      tally_contests, tally_spoiled_ballots, obj, call, history, unread>>

\* The titles of the Invariants sets, in the order verify() constructs them.
Titles ==
    << "Election Parameters",
       "Guardian Public Keys",
       "Ballot Selection Encryptions",
       "Vote Limits",
       "Ballot Chaining",
       "Ballot Aggregations & Partial Decryptions",
       "Recovered Data for Missing Guardians",
       "Reconstructed Partial Decryptions for Missing Guardians",
       "Decryption of Tallies",
       "Spoiled Ballots" >>

\* An argument no stage has read yet.
Unread == <<>>

\* The three unused arguments of the other call: each differs from this call's,
\* which are empty.  No plaintext tally of the model carries the message (4, 4).
OtherDevices ==
    <<[uuid |-> 1, location |-> "polling-place"]>>

OtherSpoiledBallots ==
    <<[state |-> "SPOILED", contests |-> <<>>]>>

OtherCiphertextTally ==
    <<[object_id |-> "c1",
       tally_selections |-> <<[object_id |-> "s1", message |-> [pad |-> 4, data |-> 4]]>>]>>

NoCall ==
    [n |-> 0, op |-> "none", before |-> "none", invariant |-> "", condition |-> TRUE,
     returned |-> TRUE]

Init ==
    /\ pc = Titles[1]
    /\ result = "none"
    /\ inv = [t \in {} |-> EmptyConditions]
    /\ validated = <<>>
    /\ constants = Unread
    /\ context = Unread
    /\ description_crypto_hash = Unread
    /\ description_contests = Unread
    /\ coefficient_validation_sets = Unread
    /\ ciphertext_ballots = Unread
    /\ tally_contests = Unread
    /\ tally_spoiled_ballots = Unread
    /\ obj = EmptyConditions
    /\ call = NoCall
    /\ history = <<>>
    /\ stop_early = FALSE
    /\ devices = <<>>
    /\ spoiled_ballots = <<>>
    /\ ciphertext_tally = <<>>
    /\ other = [pc |-> Titles[1], result |-> "none", inv |-> [t \in {} |-> EmptyConditions],
                validated |-> <<>>, devices |-> OtherDevices,
                spoiled_ballots |-> OtherSpoiledBallots,
                ciphertext_tally |-> OtherCiphertextTally]

\* How far a call of verify() has come: the stages it has validated, and one more
\* if an exception ended it.
Progress(at, validations) ==
    Len(validations) + (IF at = "raised" THEN 1 ELSE 0)

\* The other call has read arguments this call has yet to read.
Behind ==
    Progress(pc, validated) < Progress(other.pc, other.validated)

\* The values a stage can find in an argument it is the first to read: any of
\* choices, unless the other call, made on the same artifact, has read it: then
\* the value it found.
Arguments(value, choices) ==
    IF Behind THEN {value} ELSE choices

\* The stage after title t, "returned" after the last one.
StageAfter(t) ==
    LET i == CHOOSE j \in 1..Len(Titles) : Titles[j] = t
    IN  IF i < Len(Titles) THEN Titles[i + 1] ELSE "returned"

\* A faulty stage end: a false validate does not return, the next stage runs.
finish_buggy_no_short_circuit(title, conditions, others) ==
    /\ inv' = (title :> conditions) @@ others @@ inv
    /\ validated' = Append(validated, [title |-> title, validity |-> validate(conditions)])
    /\ pc' = StageAfter(title)
    /\ result' = IF StageAfter(title) = "returned" THEN "True" ELSE "none"

\* The end of a stage: `if not <set>.validate(): return False`, and `return True`
\* after the last stage.  conditions are those of the stage's own set; others are
\* the sets of earlier stages the stage has written to.
finish(title, conditions, others) ==
    /\ inv' = (title :> conditions) @@ others @@ inv
    /\ validated' = Append(validated, [title |-> title, validity |-> validate(conditions)])
    /\ IF ~validate(conditions)
       THEN pc' = "returned" /\ result' = "False"
       ELSE /\ pc' = StageAfter(title)
            /\ result' = IF StageAfter(title) = "returned" THEN "True" ELSE "none"

\* An exception leaves verify(): the stage's set holds what was recorded before it.
raise(title, conditions) ==
    /\ inv' = (title :> conditions) @@ inv
    /\ validated' = validated
    /\ pc' = "raised"
    /\ result' = "raised"

\* ------------------------------------------------------------------------
\* Stage 1: Election Parameters (verify.py 36-46)
\* ------------------------------------------------------------------------
ConstantsChoices ==
    [large_prime : {P, P + 4}, small_prime : {Q, Q + 2},
     cofactor : {R, R + 1}, generator : {G, G + 2}]

ContextChoices ==
    [number_of_guardians : 0..1, quorum : 0..1, elgamal_public_key : {1, 2, 4},
     crypto_base_hash : 0..(Q - 1), crypto_extended_base_hash : 0..(Q - 1)]

DescriptionHashChoices == {1}

\* A faulty stage 1: 'g is correct' compares the large prime instead of the generator.
ElectionParametersCalls_buggy_generator(cons, ctx, dhash) ==
    << <<"p is correct", cons.large_prime = P>>,
       <<"q is correct", cons.small_prime = Q>>,
       <<"r is correct", cons.cofactor = R>>,
       <<"g is correct", cons.large_prime = P>>,
       <<"k >= 1", ctx.quorum >= 1>>,
       <<"k <= n", ctx.number_of_guardians >= ctx.quorum>>,
       <<"Q = H(p,Q,g,n,k,d)",
         ctx.crypto_base_hash
           = hash_elems(<<P, Q, G, ctx.number_of_guardians, ctx.quorum, dhash>>)>> >>

ElectionParametersCalls(cons, ctx, dhash) ==
    << <<"p is correct", cons.large_prime = P>>,
       <<"q is correct", cons.small_prime = Q>>,
       <<"r is correct", cons.cofactor = R>>,
       <<"g is correct", cons.generator = G>>,
       <<"k >= 1", ctx.quorum >= 1>>,
       <<"k <= n", ctx.number_of_guardians >= ctx.quorum>>,
       <<"Q = H(p,Q,g,n,k,d)",
         ctx.crypto_base_hash
           = hash_elems(<<P, Q, G, ctx.number_of_guardians, ctx.quorum, dhash>>)>> >>

ElectionParameters ==
    /\ pc = "Election Parameters"
    /\ \E cons \in Arguments(constants, ConstantsChoices),
          ctx \in Arguments(context, ContextChoices),
          dhash \in Arguments(description_crypto_hash, DescriptionHashChoices) :
          /\ constants' = cons
          /\ context' = ctx
          /\ description_crypto_hash' = dhash
          /\ finish("Election Parameters",
                    ensure_all(EmptyConditions, ElectionParametersCalls(cons, ctx, dhash)),
                    inv)
    /\ UNCHANGED <<description_contests, coefficient_validation_sets, ciphertext_ballots,
                   tally_contests, tally_spoiled_ballots, obj, call, history, unread>>

\* ------------------------------------------------------------------------
\* Stage 2: Guardian Public Keys (verify.py 48-63)
\* ------------------------------------------------------------------------
GuardianIds == {"g1"}

SchnorrProofChoices ==
    [public_key : {2}, commitment : {1, 2}, challenge : 0..1, response : 0..1]

GuardianChoices ==
    [owner_id : GuardianIds,
     coefficient_commitments : {<<>>, <<2>>},
     coefficient_proofs : SeqsUpTo(SchnorrProofChoices, 1)]

\* Guardians of the lists that vary in length: one commitment, no proof.
PlainGuardianChoices ==
    [owner_id : GuardianIds, coefficient_commitments : {<<2>>}, coefficient_proofs : {<<>>}]

\* The coefficient_validation_sets the model draws from: up to MaxGuardians plain
\* guardians, or one guardian of GuardianChoices.
GuardianListChoices ==
    SeqsUpTo(PlainGuardianChoices, MaxGuardians)
    \cup {<<guardian>> : guardian \in GuardianChoices}

\* Line 52 raises when get_first_el returns None: mult_p reads the element's value.
GuardianRaises(guardian) ==
    get_first_el(guardian.coefficient_commitments) = None

RECURSIVE BeforeRaise(_)
\* The guardians the loop of line 51 completes before an exception leaves it.
BeforeRaise(guardians) ==
    IF guardians = <<>> \/ GuardianRaises(Head(guardians)) THEN <<>>
    ELSE <<Head(guardians)>> \o BeforeRaise(Tail(guardians))

RECURSIVE JointKey(_)
\* elgamal_public_key after the fold of lines 50-52 over guardians
JointKey(guardians) ==
    IF guardians = <<>> THEN int_to_p(1)
    ELSE mult_p(<<JointKey(SubSeq(guardians, 1, Len(guardians) - 1)),
                  get_first_el(guardians[Len(guardians)].coefficient_commitments)[1]>>)

CoefficientProofCalls(cons, proof) ==
    << <<"c_ij = H(K_ij,h_ij)",
         proof.challenge = hash_elems(<<proof.public_key, proof.commitment>>)>>,
       <<"g^u_ij mod p = h_ij K_ij^c_i mod p",
         pow_p(cons.generator, proof.response)
           = mult_p(<<proof.commitment, pow_p(proof.public_key, proof.challenge)>>)>> >>

GuardianCalls(cons, guardian) ==
    Concat([i \in DOMAIN guardian.coefficient_proofs |->
              CoefficientProofCalls(cons, guardian.coefficient_proofs[i])])

GuardiansCalls(cons, guardians) ==
    Concat([i \in DOMAIN guardians |-> GuardianCalls(cons, guardians[i])])

PublicKeysCalls(cons, ctx, guardians) ==
    GuardiansCalls(cons, guardians)
    \o << <<"K = prod K_i mod p", ctx.elgamal_public_key = JointKey(guardians)>>,
          <<"Qbar = H(Q,K)",
            ctx.crypto_extended_base_hash
              = hash_elems(<<ctx.crypto_base_hash, ctx.elgamal_public_key>>)>> >>

GuardianPublicKeys ==
    /\ pc = "Guardian Public Keys"
    /\ \E guardians \in Arguments(coefficient_validation_sets, GuardianListChoices) :
          /\ coefficient_validation_sets' = guardians
          /\ IF \E i \in 1..Len(guardians) : GuardianRaises(guardians[i])
             THEN raise("Guardian Public Keys",
                        ensure_all(EmptyConditions,
                                   GuardiansCalls(constants, BeforeRaise(guardians))))
             ELSE finish("Guardian Public Keys",
                         ensure_all(EmptyConditions,
                                    PublicKeysCalls(constants, context, guardians)),
                         inv)
    /\ UNCHANGED <<constants, context, description_crypto_hash, description_contests,
                   ciphertext_ballots, tally_contests, tally_spoiled_ballots, obj, call, history, unread>>

\* ------------------------------------------------------------------------
\* Stage 3: Ballot Selection Encryptions (verify.py 65-89)
\* ------------------------------------------------------------------------
ContestIds == {"c1", "c2"}

SelectionIds == {"s1", "s2"}

DisjunctiveProofChoices ==
    [proof_zero_pad : {1}, proof_zero_data : {1}, proof_one_pad : {1},
     proof_one_data : {1, 3}, proof_zero_challenge : {0}, proof_one_challenge : {0},
     proof_zero_response : {0}, proof_one_response : {0}, challenge : {0, 1}]

CiphertextChoices ==
    [pad : {1, 2}, data : {1, 2}]

\* Selections of the one-contest, one-selection ballots.
SimpleSelectionChoices ==
    [object_id : {"s1"}, ciphertext : CiphertextChoices, proof : DisjunctiveProofChoices,
     is_placeholder_selection : {FALSE}]

SimpleBallotChoices ==
    [state : {"CAST", "SPOILED"},
     contests : {<<[object_id |-> "c1", proof_response |-> 0, ballot_selections |-> <<sel>>]>> :
                    sel \in SimpleSelectionChoices}]

\* Selections of the ballots that vary in structure: ids, placeholders, repeats.
StructuredSelectionChoices ==
    [object_id : SelectionIds, ciphertext : [pad : {1}, data : {1, 2}],
     proof : [proof_zero_pad : {1}, proof_zero_data : {1}, proof_one_pad : {1},
              proof_one_data : {1}, proof_zero_challenge : {0}, proof_one_challenge : {0},
              proof_zero_response : {0}, proof_one_response : {0}, challenge : {0}],
     is_placeholder_selection : BOOLEAN]

StructuredBallotChoices ==
    [state : {"CAST"},
     contests :
        {<<[object_id |-> "c1", proof_response |-> v, ballot_selections |-> sels]>> :
            v \in {0, Q}, sels \in SeqsUpTo(StructuredSelectionChoices, 2)}
        \cup SeqsUpTo([object_id : ContestIds, proof_response : {0},
                       ballot_selections :
                           {<<sel>> : sel \in {x \in StructuredSelectionChoices :
                                                  /\ x.object_id = "s1"
                                                  /\ ~x.is_placeholder_selection}}], 2)]

\* Ballots of the lists that vary in length: contest "c1" with selection "s1" of
\* ciphertext (2, 1).
PlainBallotChoices ==
    {b \in SimpleBallotChoices :
        LET selection == b.contests[1].ballot_selections[1]
        IN  /\ selection.ciphertext = [pad |-> 2, data |-> 1]
            /\ selection.proof.challenge = 0}

\* The ciphertext_ballots the model draws from: up to MaxBallots plain ballots,
\* or one simple ballot, or one structured ballot.
BallotListChoices ==
    SeqsUpTo(PlainBallotChoices, MaxBallots)
    \cup {<<b>> : b \in SimpleBallotChoices}
    \cup {<<b>> : b \in StructuredBallotChoices}

SelectionCalls(cons, ctx, selection) ==
    << <<"alpha in Zp^r", is_valid_residue(selection.ciphertext.pad)>>,
       <<"beta in Zp^r", is_valid_residue(selection.ciphertext.data)>>,
       <<"a0 in Zp^r", is_valid_residue(selection.proof.proof_zero_pad)>>,
       <<"b0 in Zp^r", is_valid_residue(selection.proof.proof_zero_data)>>,
       <<"a1 in Zp^r", is_valid_residue(selection.proof.proof_one_pad)>>,
       <<"b1 in Zp^r", is_valid_residue(selection.proof.proof_one_pad)>>,
       <<"c = H(Qbar,alpha,beta,a0,b0,a1,b1)",
         selection.proof.challenge
           = hash_elems(<<ctx.crypto_extended_base_hash, selection.ciphertext.pad,
                          selection.ciphertext.data, selection.proof.proof_zero_pad,
                          selection.proof.proof_zero_data, selection.proof.proof_one_pad,
                          selection.proof.proof_one_data>>)>>,
       <<"c0 in Zq", is_in_bounds(selection.proof.proof_zero_challenge)>>,
       <<"c1 in Zq", is_in_bounds(selection.proof.proof_one_challenge)>>,
       <<"v0 in Zq", is_in_bounds(selection.proof.proof_zero_response)>>,
       <<"v1 in Zq", is_in_bounds(selection.proof.proof_one_response)>>,
       <<"c = c0+c1 mod q",
         selection.proof.challenge
           = add_q(selection.proof.proof_zero_challenge, selection.proof.proof_one_challenge)>>,
       <<"g^v0 = a0 alpha^c0 (mod p)",
         pow_p(cons.generator, selection.proof.proof_zero_response)
           = mult_p(<<selection.proof.proof_zero_pad,
                      pow_p(selection.ciphertext.pad, selection.proof.proof_zero_challenge)>>)>>,
       <<"g^v1 = a1 alpha^c1 (mod p)",
         pow_p(cons.generator, selection.proof.proof_one_response)
           = mult_p(<<selection.proof.proof_one_pad,
                      pow_p(selection.ciphertext.pad, selection.proof.proof_one_challenge)>>)>>,
       <<"K^v0 = b0 beta^c0 (mod p)",
         pow_p(ctx.elgamal_public_key, selection.proof.proof_zero_response)
           = mult_p(<<selection.proof.proof_zero_data,
                      pow_p(selection.ciphertext.data, selection.proof.proof_zero_challenge)>>)>> >>

ContestSelectionsCalls(cons, ctx, contest) ==
    Concat([i \in DOMAIN contest.ballot_selections |->
              SelectionCalls(cons, ctx, contest.ballot_selections[i])])

BallotContestsCalls(cons, ctx, ballot) ==
    Concat([i \in DOMAIN ballot.contests |->
              ContestSelectionsCalls(cons, ctx, ballot.contests[i])])

BallotSelectionsCalls(cons, ctx, ballots) ==
    Concat([i \in DOMAIN ballots |-> BallotContestsCalls(cons, ctx, ballots[i])])

BallotSelectionEncryptions ==
    /\ pc = "Ballot Selection Encryptions"
    /\ \E ballots \in Arguments(ciphertext_ballots, BallotListChoices) :
          /\ ciphertext_ballots' = ballots
          /\ finish("Ballot Selection Encryptions",
                    ensure_all(EmptyConditions,
                               BallotSelectionsCalls(constants, context, ballots)),
                    inv)
    /\ UNCHANGED <<constants, context, description_crypto_hash, description_contests,
                   coefficient_validation_sets, tally_contests, tally_spoiled_ballots,
                   obj, call, history, unread>>

\* ------------------------------------------------------------------------
\* Stage 4: Vote Limits (verify.py 91-104)
\* ------------------------------------------------------------------------
ContestDescriptionChoices ==
    [object_id : ContestIds, votes_allowed : 0..1]

RECURSIVE ContestsIndex(_)
\* Contests.__init__: contests[object_id] = contest for each contest, in order
ContestsIndex(descriptions) ==
    IF descriptions = <<>> THEN [c \in {} |-> TRUE]
    ELSE LET last == descriptions[Len(descriptions)]
         IN  (last.object_id :> last)
             @@ ContestsIndex(SubSeq(descriptions, 1, Len(descriptions) - 1))

\* Contests.__getitem__: the requested contest, or None
ContestsGet(index, contest_id) ==
    IF contest_id \in DOMAIN index THEN Some(index[contest_id]) ELSE None

RECURSIVE CountPlaceholders(_)
\* sum(1 for x in contest.ballot_selections if x.is_placeholder_selection)
CountPlaceholders(selections) ==
    IF selections = <<>> THEN 0
    ELSE (IF Head(selections).is_placeholder_selection THEN 1 ELSE 0)
         + CountPlaceholders(Tail(selections))

\* A faulty contest check: the proof response is tested only for a described contest.
VoteLimitContestCalls_buggy_skip_response(index, contest) ==
    LET contest_description == ContestsGet(index, contest.object_id)
    IN  << <<"all contests appear in election description", contest_description # None>> >>
        \o (IF contest_description # None
            THEN << <<"placeholder options match contest selection limit",
                      CountPlaceholders(contest.ballot_selections)
                        = contest_description[1].votes_allowed>>,
                    <<"V in Zq", is_in_bounds(contest.proof_response)>> >>
            ELSE <<>>)

\* Lines 96-100: the calls stage 4 makes for one contest of a ballot
VoteLimitContestCalls(index, contest) ==
    LET contest_description == ContestsGet(index, contest.object_id)
    IN  << <<"all contests appear in election description", contest_description # None>> >>
        \o (IF contest_description # None
            THEN << <<"placeholder options match contest selection limit",
                      CountPlaceholders(contest.ballot_selections)
                        = contest_description[1].votes_allowed>> >>
            ELSE <<>>)
        \o << <<"V in Zq", is_in_bounds(contest.proof_response)>> >>

VoteLimitBallotCalls(index, ballot) ==
    Concat([i \in DOMAIN ballot.contests |-> VoteLimitContestCalls(index, ballot.contests[i])])

VoteLimitsCalls(index, ballots) ==
    Concat([i \in DOMAIN ballots |-> VoteLimitBallotCalls(index, ballots[i])])

VoteLimits ==
    /\ pc = "Vote Limits"
    /\ \E descriptions \in Arguments(description_contests, SeqsUpTo(ContestDescriptionChoices, 1)) :
          /\ description_contests' = descriptions
          /\ finish("Vote Limits",
                    ensure_all(EmptyConditions,
                               VoteLimitsCalls(ContestsIndex(descriptions), ciphertext_ballots)),
                    inv)
    /\ UNCHANGED <<constants, context, description_crypto_hash, coefficient_validation_sets,
                   ciphertext_ballots, tally_contests, tally_spoiled_ballots, obj, call, history, unread>>

\* ------------------------------------------------------------------------
\* Stage 5: Ballot Chaining (verify.py 106-114): no condition is recorded
\* ------------------------------------------------------------------------
BallotChaining ==
    /\ pc = "Ballot Chaining"
    /\ finish("Ballot Chaining", EmptyConditions, inv)
    /\ UNCHANGED <<constants, context, description_crypto_hash, description_contests,
                   coefficient_validation_sets, ciphertext_ballots, tally_contests,
                   tally_spoiled_ballots, obj, call, history, unread>>

\* ------------------------------------------------------------------------
\* Plaintext tally: the values stages 6 to 10 read
\* ------------------------------------------------------------------------
\* Guardian ids a share may name: "g2" is no guardian of GuardianIds.
ShareGuardianIds == {"g1", "g2"}

ChaumPedersenProofChoices ==
    [pad : {1}, data : {1}, challenge : 0..1, response : 0..1]

RecoveredPartChoices ==
    [guardian_id : ShareGuardianIds, share : {1}, recovery_key : {1},
     proof : {pf \in ChaumPedersenProofChoices : pf.response = 0}]

\* Shares that vary in value, all direct and of a known guardian.
DirectShareChoices ==
    [guardian_id : {"g1"}, share : {2, 4},
     proof : {Some(pf) : pf \in {x \in ChaumPedersenProofChoices : x.response = x.challenge}},
     recovered_parts : {<<>>}]

\* Shares that vary in structure: proof and recovered_parts present or not, and
\* the guardian ids they name.  recovered_parts holds the dict's values; None and
\* the empty dict, both falsy, are the empty sequence.
StructuredShareChoices ==
    [guardian_id : ShareGuardianIds, share : {1},
     proof : {None} \cup {Some(pf) : pf \in ChaumPedersenProofChoices},
     recovered_parts : SeqsUpTo(RecoveredPartChoices, 1)]

\* Tally selections: messages of every kind without shares; up to MaxShares direct
\* shares under the messages the plain ballots aggregate to; structured shares.
\* Structured shares of the lists that vary in length: guardian "g1", with or
\* without a proof, with or without one recovered part.
PlainShareChoices ==
    {share \in StructuredShareChoices :
        /\ share.guardian_id = "g1"
        /\ share.proof \in {None, Some([pad |-> 1, data |-> 1, challenge |-> 1, response |-> 1])}
        /\ \A i \in DOMAIN share.recovered_parts :
              /\ share.recovered_parts[i].guardian_id = "g1"
              /\ share.recovered_parts[i].proof.challenge = 1}

StructuredShareListChoices ==
    SeqsUpTo(PlainShareChoices, MaxShares)
    \cup {<<share>> : share \in StructuredShareChoices}

TallySelectionChoices ==
    [object_id : {"s1"}, message : [pad : {1, 2, 4}, data : {1, 2}], value : {1},
     tally : {0}, shares : {<<>>}]
    \cup
    [object_id : {"s1"}, message : [pad : {2, 4}, data : {1}], value : {2, 4},
     tally : 1..2, shares : SeqsUpTo(DirectShareChoices, MaxShares)]
    \cup
    [object_id : {"s1"}, message : [pad : {1}, data : {1}], value : {1}, tally : {0},
     shares : StructuredShareListChoices]

TallyContestChoices ==
    [object_id : ContestIds, selections : SeqsUpTo(TallySelectionChoices, 1)]

\* ------------------------------------------------------------------------
\* utils.py: get_contest, get_selection, Guardians
\* ------------------------------------------------------------------------
RECURSIVE get_contest_from(_, _, _)
\* The loop of get_contest over the contests left, found being the match so far.
get_contest_from(contests, contest_id, found) ==
    IF contests = <<>> THEN found
    ELSE IF Head(contests).object_id = contest_id
         THEN IF found # None THEN None
              ELSE get_contest_from(Tail(contests), contest_id, Some(Head(contests)))
         ELSE get_contest_from(Tail(contests), contest_id, found)

\* get_contest: the ballot's contest of that id, None if absent or repeated
get_contest(ballot, contest_id) ==
    get_contest_from(ballot.contests, contest_id, None)

RECURSIVE get_selection_from(_, _, _)
get_selection_from(selections, selection_id, found) ==
    IF selections = <<>> THEN found
    ELSE IF Head(selections).object_id = selection_id
         THEN IF found # None THEN None
              ELSE get_selection_from(Tail(selections), selection_id, Some(Head(selections)))
         ELSE get_selection_from(Tail(selections), selection_id, found)

\* get_selection: the selection of that id in the contest of that id, None if
\* either is absent or repeated
get_selection(ballot, contest_id, selection_id) ==
    LET contest == get_contest(ballot, contest_id)
    IN  IF contest # None
        THEN get_selection_from(contest[1].ballot_selections, selection_id, None)
        ELSE None

RECURSIVE GuardiansIndex(_)
\* Guardians.__init__: guardians[owner_id] = guardian for each guardian, in order
GuardiansIndex(guardians) ==
    IF guardians = <<>> THEN [g \in {} |-> TRUE]
    ELSE LET last == guardians[Len(guardians)]
         IN  (last.owner_id :> last) @@ GuardiansIndex(SubSeq(guardians, 1, Len(guardians) - 1))

\* ------------------------------------------------------------------------
\* Stage 6: Ballot Aggregations & Partial Decryptions (verify.py 116-143)
\* ------------------------------------------------------------------------
\* A faulty aggregation: ballots of every state are multiplied in, not only CAST.
Aggregate_buggy_all_states(ballots, contest_id, selection_id) ==
    LET RECURSIVE fold(_)
        fold(bs) ==
            IF bs = <<>> THEN [pad |-> int_to_p(1), data |-> int_to_p(1)]
            ELSE LET acc == fold(SubSeq(bs, 1, Len(bs) - 1))
                     ballot_selection == get_selection(bs[Len(bs)], contest_id, selection_id)
                 IN  IF ballot_selection # None
                     THEN [pad |-> mult_p(<<acc.pad, ballot_selection[1].ciphertext.pad>>),
                           data |-> mult_p(<<acc.data, ballot_selection[1].ciphertext.data>>)]
                     ELSE acc
    IN  fold(ballots)

\* A and B after the loop of lines 121-128
Aggregate(ballots, contest_id, selection_id) ==
    LET RECURSIVE fold(_)
        fold(bs) ==
            IF bs = <<>> THEN [pad |-> int_to_p(1), data |-> int_to_p(1)]
            ELSE LET acc == fold(SubSeq(bs, 1, Len(bs) - 1))
                     ballot_selection == get_selection(bs[Len(bs)], contest_id, selection_id)
                 IN  IF bs[Len(bs)].state = "CAST" /\ ballot_selection # None
                     THEN [pad |-> mult_p(<<acc.pad, ballot_selection[1].ciphertext.pad>>),
                           data |-> mult_p(<<acc.data, ballot_selection[1].ciphertext.data>>)]
                     ELSE acc
    IN  fold(ballots)

\* Lines 133-141 (and 193-201): the checks of a share that carries a proof.
\* A guardian of the index has a first commitment: line 52 raised otherwise.
DirectShareCalls(cons, ctx, guardians, selection, share) ==
    LET proof == share.proof[1]
    IN  << <<"v_i in Zq", is_in_bounds(proof.response)>>,
           <<"a_i in Zp^r", is_valid_residue(proof.pad)>>,
           <<"b_i in Zp^r", is_valid_residue(proof.data)>>,
           <<"c_i = H(Qbar,A,B,a_i,b_i,M_i)",
             proof.challenge
               = hash_elems(<<ctx.crypto_extended_base_hash, selection.message.pad,
                              selection.message.data, proof.pad, proof.data, share.share>>)>>,
           <<"A^v_i = b_i M_i^c_i (mod p)",
             pow_p(selection.message.pad, proof.response)
               = mult_p(<<proof.data, pow_p(share.share, proof.challenge)>>)>> >>
        \o (IF share.guardian_id \in DOMAIN guardians
            THEN << <<"g^v_i = a_i K_i^c_i (mod p)",
                      pow_p(cons.generator, proof.response)
                        = mult_p(<<proof.pad,
                                   pow_p(get_first_el(guardians[share.guardian_id]
                                                        .coefficient_commitments)[1],
                                         proof.challenge)>>)>> >>
            ELSE << <<"tally share guardians are valid election guardians", FALSE>> >>)

\* A faulty aggregation check: the message is also compared with the published
\* ciphertext tally.
AggregationSelectionCalls_buggy_reads_ciphertext_tally(cons, ctx, guardians, ballots, contest, selection) ==
    LET AB == Aggregate(ballots, contest.object_id, selection.object_id)
    IN  << <<"A = prod alpha_j", selection.message.pad = AB.pad>>,
           <<"B = prod beta_j", selection.message.data = AB.data>> >>
        \o Concat([i \in DOMAIN selection.shares |->
                      IF selection.shares[i].proof # None
                      THEN DirectShareCalls(cons, ctx, guardians, selection, selection.shares[i])
                      ELSE <<>>])
        \o << <<"A = prod alpha_j",
                \A i \in DOMAIN ciphertext_tally :
                   \A j \in DOMAIN ciphertext_tally[i].tally_selections :
                      (/\ ciphertext_tally[i].object_id = contest.object_id
                       /\ ciphertext_tally[i].tally_selections[j].object_id
                            = selection.object_id)
                      => ciphertext_tally[i].tally_selections[j].message
                           = selection.message>> >>

\* Lines 120-141: the calls stage 6 makes for one selection of the tally
AggregationSelectionCalls(cons, ctx, guardians, ballots, contest, selection) ==
    LET AB == Aggregate(ballots, contest.object_id, selection.object_id)
    IN  << <<"A = prod alpha_j", selection.message.pad = AB.pad>>,
           <<"B = prod beta_j", selection.message.data = AB.data>> >>
        \o Concat([i \in DOMAIN selection.shares |->
                      IF selection.shares[i].proof # None
                      THEN DirectShareCalls(cons, ctx, guardians, selection, selection.shares[i])
                      ELSE <<>>])

AggregationContestCalls(cons, ctx, guardians, ballots, contest) ==
    Concat([i \in DOMAIN contest.selections |->
              AggregationSelectionCalls(cons, ctx, guardians, ballots, contest,
                                        contest.selections[i])])

BallotAggregationsCalls(cons, ctx, guardians, ballots, tally) ==
    Concat([i \in DOMAIN tally |->
              AggregationContestCalls(cons, ctx, guardians, ballots, tally[i])])

BallotAggregations ==
    /\ pc = "Ballot Aggregations & Partial Decryptions"
    /\ \E tally \in Arguments(tally_contests, SeqsUpTo(TallyContestChoices, 1)) :
          /\ tally_contests' = tally
          /\ finish("Ballot Aggregations & Partial Decryptions",
                    ensure_all(EmptyConditions,
                               BallotAggregationsCalls(constants, context,
                                   GuardiansIndex(coefficient_validation_sets),
                                   ciphertext_ballots, tally)),
                    inv)
    /\ UNCHANGED <<constants, context, description_crypto_hash, description_contests,
                   coefficient_validation_sets, ciphertext_ballots, tally_spoiled_ballots,
                   obj, call, history, unread>>

\* ------------------------------------------------------------------------
\* Stage 7: Recovered Data for Missing Guardians (verify.py 145-163)
\* ------------------------------------------------------------------------
\* A faulty exactly-one test: an inclusive or in place of the exclusive or.
ExactlyOne_buggy_or(share) ==
    (share.proof # None) \/ (share.recovered_parts # <<>>)

\* Python's (not share.proof) ^ (not share.recovered_parts)
ExactlyOne(share) ==
    (share.proof = None) # (share.recovered_parts = <<>>)

\* Lines 153-161 (and 204-212): the checks of one recovered part
RecoveredPartCalls(cons, ctx, guardians, selection, part) ==
    << <<"v_il in Zq", is_in_bounds(part.proof.response)>>,
       <<"a_il in Zp^r", is_valid_residue(part.proof.pad)>>,
       <<"b_il in Zp^r", is_valid_residue(part.proof.data)>>,
       <<"c_il = H(Qbar,A,B,a_il,b_il,M_il)",
         part.proof.challenge
           = hash_elems(<<ctx.crypto_extended_base_hash, selection.message.pad,
                          selection.message.data, part.proof.pad, part.proof.data,
                          part.share>>)>>,
       <<"A^v_il = b_il M_il^c_il (mod p)",
         pow_p(selection.message.pad, part.proof.response)
           = mult_p(<<part.proof.data, pow_p(part.share, part.proof.challenge)>>)>> >>
    \o (IF part.guardian_id \in DOMAIN guardians
        THEN << <<"g^v_il = a_il (prod K_ij^l^j)^c_il (mod p)",
                  pow_p(cons.generator, part.proof.response)
                    = mult_p(<<part.proof.pad,
                               pow_p(part.recovery_key, part.proof.challenge)>>)>> >>
        ELSE << <<"tally share reconstruction guardians are valid election guardians",
                  FALSE>> >>)

RecoveredShareCalls(cons, ctx, guardians, selection, share) ==
    Concat([i \in DOMAIN share.recovered_parts |->
              RecoveredPartCalls(cons, ctx, guardians, selection, share.recovered_parts[i])])

MissingShareCalls(cons, ctx, guardians, selection, share) ==
    << <<"tally share contains exactly one proof or recovered part", ExactlyOne(share)>> >>
    \o RecoveredShareCalls(cons, ctx, guardians, selection, share)

MissingSelectionCalls(cons, ctx, guardians, selection) ==
    Concat([i \in DOMAIN selection.shares |->
              MissingShareCalls(cons, ctx, guardians, selection, selection.shares[i])])

MissingContestCalls(cons, ctx, guardians, contest) ==
    Concat([i \in DOMAIN contest.selections |->
              MissingSelectionCalls(cons, ctx, guardians, contest.selections[i])])

MissingGuardiansCalls(cons, ctx, guardians, tally) ==
    Concat([i \in DOMAIN tally |-> MissingContestCalls(cons, ctx, guardians, tally[i])])

MissingGuardians ==
    /\ pc = "Recovered Data for Missing Guardians"
    /\ finish("Recovered Data for Missing Guardians",
              ensure_all(EmptyConditions,
                         MissingGuardiansCalls(constants, context,
                             GuardiansIndex(coefficient_validation_sets), tally_contests)),
              inv)
    /\ UNCHANGED <<constants, context, description_crypto_hash, description_contests,
                   coefficient_validation_sets, ciphertext_ballots, tally_contests,
                   tally_spoiled_ballots, obj, call, history, unread>>

\* ------------------------------------------------------------------------
\* Stage 8: Reconstructed Partial Decryptions for Missing Guardians
\* (verify.py 165-172): no condition is recorded
\* ------------------------------------------------------------------------
ReconstructedDecryptions ==
    /\ pc = "Reconstructed Partial Decryptions for Missing Guardians"
    /\ finish("Reconstructed Partial Decryptions for Missing Guardians", EmptyConditions, inv)
    /\ UNCHANGED <<constants, context, description_crypto_hash, description_contests,
                   coefficient_validation_sets, ciphertext_ballots, tally_contests,
                   tally_spoiled_ballots, obj, call, history, unread>>

\* ------------------------------------------------------------------------
\* Stage 9: Decryption of Tallies (verify.py 174-182)
\* ------------------------------------------------------------------------
\* map(lambda x: x.share, selection.shares)
ShareValues(shares) ==
    [i \in 1..Len(shares) |-> shares[i].share]

\* A faulty decryption check: the shares are left out of the product.
DecryptionCalls_buggy_no_shares(cons, selection) ==
    << <<"B = M (prod M_i) mod p", selection.message.data = mult_p(<<selection.value>>)>>,
       <<"M = g^t mod p", selection.value = pow_p(cons.generator, selection.tally)>> >>

\* Lines 179-180 (and 213-214): the two decryption equations of a selection
DecryptionCalls(cons, selection) ==
    << <<"B = M (prod M_i) mod p",
         selection.message.data = mult_p(<<selection.value>> \o ShareValues(selection.shares))>>,
       <<"M = g^t mod p", selection.value = pow_p(cons.generator, selection.tally)>> >>

ContestLabelCall(index, contest) ==
    << <<"tally contest label exists in ballot coding file", contest.object_id \in DOMAIN index>> >>

TallyContestCalls(cons, index, contest) ==
    ContestLabelCall(index, contest)
    \o Concat([i \in DOMAIN contest.selections |->
                 DecryptionCalls(cons, contest.selections[i])])

TallyDecryptionCalls(cons, index, tally) ==
    Concat([i \in DOMAIN tally |-> TallyContestCalls(cons, index, tally[i])])

TallyDecryption ==
    /\ pc = "Decryption of Tallies"
    /\ finish("Decryption of Tallies",
              ensure_all(EmptyConditions,
                         TallyDecryptionCalls(constants, ContestsIndex(description_contests),
                                              tally_contests)),
              inv)
    /\ UNCHANGED <<constants, context, description_crypto_hash, description_contests,
                   coefficient_validation_sets, ciphertext_ballots, tally_contests,
                   tally_spoiled_ballots, obj, call, history, unread>>

\* ------------------------------------------------------------------------
\* Stage 10: Spoiled Ballots (verify.py 184-221)
\* ------------------------------------------------------------------------
\* plaintext_tally.spoiled_ballots.values(): each ballot the values of its contests
SpoiledSelectionChoices ==
    [object_id : {"s1"}, message : [pad : {1}, data : {1, 2}], value : {1, 2}, tally : 0..1,
     shares : {<<>>}]
    \cup
    [object_id : {"s1"}, message : [pad : {1}, data : {1}], value : {1}, tally : {0},
     shares : StructuredShareListChoices]

SpoiledContestChoices ==
    [object_id : ContestIds, selections : SeqsUpTo(SpoiledSelectionChoices, 1)]

SpoiledBallotChoices ==
    SeqsUpTo(SpoiledContestChoices, 1)

\* The calls line 188 makes on the Decryption of Tallies set
SpoiledBallotLabelCalls(index, ballot) ==
    Concat([i \in DOMAIN ballot |-> ContestLabelCall(index, ballot[i])])

SpoiledContestLabelCalls(index, spoiled) ==
    Concat([i \in DOMAIN spoiled |-> SpoiledBallotLabelCalls(index, spoiled[i])])

SpoiledShareCalls(cons, ctx, guardians, selection, share) ==
    << <<"tally share contains exactly one proof or recovered part", ExactlyOne(share)>> >>
    \o (IF share.proof # None
        THEN DirectShareCalls(cons, ctx, guardians, selection, share)
        ELSE <<>>)
    \o RecoveredShareCalls(cons, ctx, guardians, selection, share)

\* The calls lines 189-214 make on the Spoiled Ballots set
SpoiledSelectionCalls(cons, ctx, guardians, selection) ==
    Concat([i \in DOMAIN selection.shares |->
              SpoiledShareCalls(cons, ctx, guardians, selection, selection.shares[i])])
    \o DecryptionCalls(cons, selection)

SpoiledContestCalls(cons, ctx, guardians, contest) ==
    Concat([i \in DOMAIN contest.selections |->
              SpoiledSelectionCalls(cons, ctx, guardians, contest.selections[i])])

SpoiledBallotCalls(cons, ctx, guardians, ballot) ==
    Concat([i \in DOMAIN ballot |-> SpoiledContestCalls(cons, ctx, guardians, ballot[i])])

SpoilsCalls(cons, ctx, guardians, spoiled) ==
    Concat([i \in DOMAIN spoiled |-> SpoiledBallotCalls(cons, ctx, guardians, spoiled[i])])

SpoiledBallots ==
    /\ pc = "Spoiled Ballots"
    /\ \E spoiled \in Arguments(tally_spoiled_ballots, SeqsUpTo(SpoiledBallotChoices, 1)) :
          /\ tally_spoiled_ballots' = spoiled
          /\ finish("Spoiled Ballots",
                    ensure_all(EmptyConditions,
                               SpoilsCalls(constants, context,
                                           GuardiansIndex(coefficient_validation_sets),
                                           spoiled)),
                    ("Decryption of Tallies" :>
                        ensure_all(inv["Decryption of Tallies"],
                                   SpoiledContestLabelCalls(ContestsIndex(description_contests),
                                                            spoiled))))
    /\ UNCHANGED <<constants, context, description_crypto_hash, description_contests,
                   coefficient_validation_sets, ciphertext_ballots, tally_contests,
                   obj, call, history, unread>>

Next ==
    \/ ElectionParameters
    \/ GuardianPublicKeys
    \/ BallotSelectionEncryptions
    \/ VoteLimits
    \/ BallotChaining
    \/ BallotAggregations
    \/ MissingGuardians
    \/ ReconstructedDecryptions
    \/ TallyDecryption
    \/ SpoiledBallots

Spec ==
    Init /\ [][Next]_vars

\* ------------------------------------------------------------------------
\* Invariants on its own: any sequence of ensure and validate calls on one object
\* ------------------------------------------------------------------------
InvariantLabels == {"p is correct", "q is correct", "k >= 1"}

VerifyUnchanged ==
    UNCHANGED <<pc, result, inv, validated, constants, context, description_crypto_hash,
                description_contests, coefficient_validation_sets, ciphertext_ballots,
                tally_contests, tally_spoiled_ballots, unread>>

EnsureCall ==
    /\ call.n < MaxCalls
    /\ \E invariant \in InvariantLabels, condition \in BOOLEAN :
          /\ obj' = ensure(obj, invariant, condition)
          /\ call' = [n |-> call.n + 1, op |-> "ensure", before |-> call.op,
                      invariant |-> invariant, condition |-> condition,
                      returned |-> ensure_returns(obj, invariant, condition)]
          /\ history' = Append(history, <<invariant, condition>>)
    /\ VerifyUnchanged

ValidateCall ==
    /\ call.n < MaxCalls
    /\ obj' = obj
    /\ call' = [n |-> call.n + 1, op |-> "validate", before |-> call.op,
                invariant |-> "", condition |-> TRUE, returned |-> validate(obj)]
    /\ history' = history
    /\ VerifyUnchanged

NextInv ==
    \/ EnsureCall
    \/ ValidateCall

SpecInv ==
    Init /\ [][NextInv]_vars

\* ------------------------------------------------------------------------
\* Either a run of verify(), or a sequence of calls on one Invariants object
\* ------------------------------------------------------------------------
NextOrder ==
    \/ call.n = 0 /\ Next
    \/ pc = Titles[1] /\ NextInv

SpecOrder ==
    Init /\ [][NextOrder]_vars

\* ------------------------------------------------------------------------
\* Two calls of verify() on artifacts that differ in devices, spoiled_ballots and
\* ciphertext_tally only, taking turns stage by stage
\* ------------------------------------------------------------------------
\* This call has validated a stage the other call has yet to run.
Ahead ==
    Progress(pc, validated) > Progress(other.pc, other.validated)

\* The call that is ahead rests and the other call takes its place.
Switch ==
    /\ Ahead
    /\ pc' = other.pc
    /\ result' = other.result
    /\ inv' = other.inv
    /\ validated' = other.validated
    /\ devices' = other.devices
    /\ spoiled_ballots' = other.spoiled_ballots
    /\ ciphertext_tally' = other.ciphertext_tally
    /\ other' = [pc |-> pc, result |-> result, inv |-> inv, validated |-> validated,
                 devices |-> devices, spoiled_ballots |-> spoiled_ballots,
                 ciphertext_tally |-> ciphertext_tally]
    /\ UNCHANGED <<constants, context, description_crypto_hash, description_contests,
                   coefficient_validation_sets, ciphertext_ballots, tally_contests,
                   tally_spoiled_ballots, obj, call, history, stop_early>>

NextPair ==
    \/ ~Ahead /\ Next
    \/ Switch

SpecPair ==
    Init /\ [][NextPair]_vars

\* ------------------------------------------------------------------------
\* verify() under an environment that raises the stop-early signal (spec.md,
\* Cancellation).  verify() takes no such signal (verify.py 21-31) and no stage
\* action reads stop_early.
\* ------------------------------------------------------------------------
RequestStop ==
    /\ pc \notin {"returned", "raised"}
    /\ ~stop_early
    /\ stop_early' = TRUE
    /\ UNCHANGED <<pc, result, inv, validated, constants, context, description_crypto_hash,
                   description_contests, coefficient_validation_sets, ciphertext_ballots,
                   tally_contests, tally_spoiled_ballots, obj, call, history, unused, other>>

NextStop ==
    \/ Next
    \/ RequestStop

SpecStop ==
    Init /\ [][NextStop]_vars

\* ------------------------------------------------------------------------
\* Properties
\* ------------------------------------------------------------------------
\* The stages whose validate() has been called.
Ran(i) ==
    Len(validated) >= i

Accepts(i) ==
    validated[i].validity

Returned ==
    result \in {"True", "False"}

\* C1: the validate() calls follow the fixed order of the ten stages; the validity
\* logged for the stage that ran last is the conjunction of what that stage
\* recorded; a validate() that returns false is the last one, verify returns False
\* there and no later stage has constructed a set or recorded a condition; verify
\* returns True only after all ten stages validated true, and False only on a
\* validate() that returned false.
C1_StageOrder ==
    /\ Len(validated) <= Len(Titles)
    /\ \A i \in 1..Len(validated) : validated[i].title = Titles[i]
    /\ Ran(1) => Accepts(Len(validated)) = (failed_labels(inv[Titles[Len(validated)]]) = {})
    /\ \A i \in 1..Len(validated) :
          ~Accepts(i) => /\ i = Len(validated)
                         /\ result = "False"
                         /\ pc = "returned"
    /\ Returned => DOMAIN inv = {Titles[i] : i \in 1..Len(validated)}
    /\ DOMAIN inv \subseteq {Titles[i] : i \in 1..(Len(validated) + 1) \cap 1..Len(Titles)}
    /\ result = "True" => /\ Len(validated) = Len(Titles)
                          /\ \A i \in 1..Len(validated) : Accepts(i)
    /\ result = "False" => Ran(1) /\ ~Accepts(Len(validated))
    /\ result = "none" => /\ pc = Titles[Len(validated) + 1]
                          /\ \A i \in 1..Len(validated) : Accepts(i)

\* C1 witness: verify returned False at the seventh stage, after six stages passed.
C1_Witness ==
    /\ result = "False"
    /\ Len(validated) = 7
    /\ \A i \in 1..6 : Accepts(i)

ElectionParameterLabels ==
    {"p is correct", "q is correct", "r is correct", "g is correct", "k >= 1", "k <= n",
     "Q = H(p,Q,g,n,k,d)"}

ConstantsDiffer ==
    \/ constants.large_prime # P
    \/ constants.small_prime # Q
    \/ constants.cofactor # R
    \/ constants.generator # G

\* C2: once stage 1 has run, its set holds exactly the seven labels, each with the
\* value of its condition; and if any of the four constants of the artifact
\* differs from the verifier's, verify has returned False, the label of each
\* differing constant is recorded false, and no later stage has run.
C2_ElectionParameters ==
    Ran(1) =>
        LET ep == inv["Election Parameters"]
        IN  /\ DOMAIN ep = ElectionParameterLabels
            /\ ep["p is correct"] = (constants.large_prime = P)
            /\ ep["q is correct"] = (constants.small_prime = Q)
            /\ ep["r is correct"] = (constants.cofactor = R)
            /\ ep["g is correct"] = (constants.generator = G)
            /\ ep["k >= 1"] = (context.quorum >= 1)
            /\ ep["k <= n"] = (context.number_of_guardians >= context.quorum)
            /\ ep["Q = H(p,Q,g,n,k,d)"]
                 = (context.crypto_base_hash
                      = hash_elems(<<P, Q, G, context.number_of_guardians, context.quorum,
                                     description_crypto_hash>>))
            /\ ConstantsDiffer =>
                  /\ result = "False"
                  /\ pc = "returned"
                  /\ Len(validated) = 1
                  /\ DOMAIN inv = {"Election Parameters"}
                  /\ coefficient_validation_sets = Unread

\* C2 witness: only the generator differs, every other condition of stage 1 holds,
\* and verify returned False with 'g is correct' the one failed label.
C2_Witness ==
    /\ Ran(1)
    /\ constants.generator # G
    /\ failed_labels(inv["Election Parameters"]) = {"g is correct"}
    /\ result = "False"

\* C3: an ensure call records a new label with the condition, turns a recorded
\* label into (old value AND condition), changes no other label, and returns the
\* condition it was passed; so a label once false stays false whatever is called.
C3_Ensure ==
    [][ /\ \A l \in DOMAIN obj : ~obj[l] => (l \in DOMAIN obj' /\ ~obj'[l])
        /\ (call'.n # call.n /\ call'.op = "ensure") =>
              /\ DOMAIN obj' = DOMAIN obj \cup {call'.invariant}
              /\ call'.invariant \notin DOMAIN obj => obj'[call'.invariant] = call'.condition
              /\ call'.invariant \in DOMAIN obj =>
                    obj'[call'.invariant] = (obj[call'.invariant] /\ call'.condition)
              /\ \A l \in DOMAIN obj \ {call'.invariant} : obj'[l] = obj[l]
              /\ call'.returned = call'.condition ]_vars

\* C3 witness: ensure was called with a true condition on a label already false:
\* the label stays false and the call returned true.
C3_Witness ==
    /\ call.op = "ensure"
    /\ call.condition
    /\ call.returned
    /\ ~obj[call.invariant]

\* C4: a validate call returns true exactly when no recorded label is false (so
\* true on an empty set), leaves the conditions as they were, and returns what
\* the validate call before it returned when no ensure came in between.
C4_Validate ==
    [][ (call'.n # call.n /\ call'.op = "validate") =>
              /\ call'.returned = ({l \in DOMAIN obj : ~obj[l]} = {})
              /\ obj' = obj
              /\ call.op = "validate" => call'.returned = call.returned ]_vars

\* C4 witness: validate called twice in a row on a set with a false label.
C4_Witness ==
    /\ call.op = "validate"
    /\ call.before = "validate"
    /\ ~call.returned
    /\ \E l \in DOMAIN obj : obj[l]

Range(seq) ==
    {seq[i] : i \in DOMAIN seq}

\* The selections of the plaintext tally, each with its contest.
TallySelections ==
    UNION {{<<contest, selection>> : selection \in Range(contest.selections)} :
             contest \in Range(tally_contests)}

\* The selections of the spoiled ballots of the plaintext tally.
SpoiledContests ==
    UNION {Range(ballot) : ballot \in Range(tally_spoiled_ballots)}

SpoiledSelections ==
    UNION {Range(contest.selections) : contest \in SpoiledContests}

OwnerIds ==
    {guardian.owner_id : guardian \in Range(coefficient_validation_sets)}

DescribedContestIds ==
    {contest.object_id : contest \in Range(description_contests)}

\* The ballot is CAST and holds exactly one contest of that id, which holds
\* exactly one selection of that id.
Matches(ballot, contest_id, selection_id) ==
    /\ ballot.state = "CAST"
    /\ Cardinality({i \in DOMAIN ballot.contests : ballot.contests[i].object_id = contest_id}) = 1
    /\ LET contest == ballot.contests[CHOOSE i \in DOMAIN ballot.contests :
                                        ballot.contests[i].object_id = contest_id]
       IN  Cardinality({j \in DOMAIN contest.ballot_selections :
                          contest.ballot_selections[j].object_id = selection_id}) = 1

Matching(ballot, contest_id, selection_id) ==
    LET contest == ballot.contests[CHOOSE i \in DOMAIN ballot.contests :
                                     ballot.contests[i].object_id = contest_id]
    IN  contest.ballot_selections[CHOOSE j \in DOMAIN contest.ballot_selections :
                                    contest.ballot_selections[j].object_id = selection_id]

RECURSIVE ProductOfMatching(_, _, _)
\* <<product of alpha_j, product of beta_j>> mod p over the matching selections
ProductOfMatching(ballots, contest_id, selection_id) ==
    IF ballots = <<>> THEN <<1, 1>>
    ELSE LET rest == ProductOfMatching(Tail(ballots), contest_id, selection_id)
         IN  IF Matches(Head(ballots), contest_id, selection_id)
             THEN LET c == Matching(Head(ballots), contest_id, selection_id).ciphertext
                  IN  <<(c.pad * rest[1]) % P, (c.data * rest[2]) % P>>
             ELSE rest

AggregateHolds ==
    \A cs \in TallySelections :
        <<cs[2].message.pad, cs[2].message.data>>
          = ProductOfMatching(ciphertext_ballots, cs[1].object_id, cs[2].object_id)

Subgroup ==
    {x \in 1..(P - 1) : Power(x, Q) = 1}

\* The first commitment of the guardian the index keeps for that owner id.
GuardianKey(guardian_id) ==
    LET last == CHOOSE i \in DOMAIN coefficient_validation_sets :
                    /\ coefficient_validation_sets[i].owner_id = guardian_id
                    /\ \A j \in DOMAIN coefficient_validation_sets :
                          coefficient_validation_sets[j].owner_id = guardian_id => j <= i
    IN  coefficient_validation_sets[last].coefficient_commitments[1]

\* The Chaum-Pedersen checks of a share that carries a proof.
DirectShareHolds(selection, share) ==
    LET proof == share.proof[1]
    IN  /\ proof.response \in 0..(Q - 1)
        /\ proof.pad \in Subgroup
        /\ proof.data \in Subgroup
        /\ proof.challenge
             = hash_elems(<<context.crypto_extended_base_hash, selection.message.pad,
                            selection.message.data, proof.pad, proof.data, share.share>>)
        /\ Power(selection.message.pad, proof.response)
             = (proof.data * Power(share.share, proof.challenge)) % P
        /\ share.guardian_id \in OwnerIds
        /\ Power(G, proof.response)
             = (proof.pad * Power(GuardianKey(share.guardian_id), proof.challenge)) % P

DirectSharesHold ==
    \A cs \in TallySelections :
        \A share \in Range(cs[2].shares) :
            share.proof # None => DirectShareHolds(cs[2], share)

\* C5 as stated: stage 6 accepts if and only if every tally selection's message is
\* the product of the matching selections of the CAST ballots.
C5_Original ==
    Ran(6) => (Accepts(6) <=> AggregateHolds)

\* C5 as amended: stage 6 accepts if and only if every tally selection's message is
\* the product, the empty product 1, of the matching selections of the CAST
\* ballots (a ballot matches when it holds the contest id once and in it the
\* selection id once) and every share that carries a proof passes its
\* Chaum-Pedersen checks and names a known guardian.
C5_AggregateAndShares ==
    Ran(6) => (Accepts(6) <=> (AggregateHolds /\ DirectSharesHold))

\* C5 witness: stage 6 accepted a tally selection whose message is not (1, 1),
\* aggregated over two CAST ballots and carrying a direct share.
C5_Witness ==
    /\ Ran(6)
    /\ Accepts(6)
    /\ Len(ciphertext_ballots) = 2
    /\ \A i \in 1..2 : ciphertext_ballots[i].state = "CAST"
    /\ \E cs \in TallySelections :
          /\ <<cs[2].message.pad, cs[2].message.data>> # <<1, 1>>
          /\ Matches(ciphertext_ballots[1], cs[1].object_id, cs[2].object_id)
          /\ Matches(ciphertext_ballots[2], cs[1].object_id, cs[2].object_id)
          /\ \E share \in Range(cs[2].shares) : share.proof # None

RECURSIVE ProductOfShares(_)
ProductOfShares(shares) ==
    IF shares = <<>> THEN 1 ELSE (Head(shares).share * ProductOfShares(Tail(shares))) % P

DecryptionHolds ==
    \A cs \in TallySelections :
        /\ cs[2].message.data = (cs[2].value * ProductOfShares(cs[2].shares)) % P
        /\ cs[2].value = Power(G, cs[2].tally)

TallyContestsDescribed ==
    \A contest \in Range(tally_contests) : contest.object_id \in DescribedContestIds

\* C6 as stated: stage 9 accepts if and only if both decryption equations hold for
\* every selection of every tally contest.
C6_Original ==
    Ran(9) => (Accepts(9) <=> DecryptionHolds)

\* C6 as amended: stage 9 accepts if and only if both decryption equations hold for
\* every selection of every tally contest and the object_id of every tally
\* contest is one of the election description's contests.
C6_DecryptionAndLabels ==
    Ran(9) => (Accepts(9) <=> (DecryptionHolds /\ TallyContestsDescribed))

\* C6 witness: stage 9 accepted a selection with a tally above 0 whose share is not 1.
C6_Witness ==
    /\ Ran(9)
    /\ Accepts(9)
    /\ \E cs \in TallySelections :
          /\ cs[2].tally > 0
          /\ \E share \in Range(cs[2].shares) : share.share # 1

NotExactlyOne(share) ==
    \/ share.proof # None /\ share.recovered_parts # <<>>
    \/ share.proof = None /\ share.recovered_parts = <<>>

\* C7: when stage 7 runs on a tally with a share that has both a proof and
\* recovered parts, or neither, the label 'tally share contains exactly one proof
\* or recovered part' is recorded false there and verify returns False at stage 7;
\* likewise at stage 10 for a share of a spoiled-ballot selection.
C7_ExactlyOne ==
    /\ (Ran(7) /\ \E cs \in TallySelections : \E share \in Range(cs[2].shares) :
                     NotExactlyOne(share))
         => /\ ~inv["Recovered Data for Missing Guardians"]
                  ["tally share contains exactly one proof or recovered part"]
            /\ result = "False"
            /\ Len(validated) = 7
    /\ (Ran(10) /\ \E selection \in SpoiledSelections : \E share \in Range(selection.shares) :
                      NotExactlyOne(share))
         => /\ ~inv["Spoiled Ballots"]
                  ["tally share contains exactly one proof or recovered part"]
            /\ result = "False"

\* C7 witness: stage 7 ran on a tally share with both a proof and recovered parts,
\* all earlier stages having passed.
C7_Witness ==
    /\ Ran(7)
    /\ \E cs \in TallySelections : \E share \in Range(cs[2].shares) :
          share.proof # None /\ share.recovered_parts # <<>>

AllShares ==
    UNION {Range(cs[2].shares) : cs \in TallySelections}
    \cup UNION {Range(selection.shares) : selection \in SpoiledSelections}

\* C8 as stated: verify returns True only if the guardian_id of every share (direct
\* or recovered) and of every recovered part, in the tally and in the spoiled
\* ballots, is an owner_id of the coefficient validation sets.
C8_GuardiansKnown ==
    result = "True" =>
        \A share \in AllShares :
            /\ share.guardian_id \in OwnerIds
            /\ \A part \in Range(share.recovered_parts) : part.guardian_id \in OwnerIds

\* C9 as stated: verify returns True only if the object_id of every contest of a
\* ballot, of the plaintext tally and of its spoiled ballots is one of the
\* election description's contests.
C9_ContestsKnown ==
    result = "True" =>
        /\ \A ballot \in Range(ciphertext_ballots) : \A contest \in Range(ballot.contests) :
              contest.object_id \in DescribedContestIds
        /\ TallyContestsDescribed
        /\ \A contest \in SpoiledContests : contest.object_id \in DescribedContestIds

\* C10 as stated: verify ends by returning True or False, never by an exception.
C10_NeverThrows ==
    result # "raised"

\* C11 as stated: once the stop-early signal is set while verify runs, no further
\* stage executes (no validate() call is added), the run ends with verdict False,
\* and it never reports True.
C11_Cancellation ==
    [][stop_early => /\ validated' = validated
                     /\ result' # "True"]_vars

\* The orders in which the elements of a list can be visited.
Reorderings(s) ==
    {[i \in DOMAIN s |-> s[p[i]]] : p \in Permutations(DOMAIN s)}

\* The lists that take their i-th element from sets[i].
Pointwise(sets) ==
    {t \in [DOMAIN sets -> UNION {sets[i] : i \in DOMAIN sets}] :
        \A i \in DOMAIN sets : t[i] \in sets[i]}

\* The lists of Pointwise(sets), in every order.
Shuffled(sets) ==
    UNION {Reorderings(t) : t \in Pointwise(sets)}

ReorderedBallotContest(contest) ==
    {[contest EXCEPT !.ballot_selections = selections] :
        selections \in Reorderings(contest.ballot_selections)}

ReorderedBallot(ballot) ==
    {[ballot EXCEPT !.contests = contests] :
        contests \in Shuffled([i \in DOMAIN ballot.contests |->
                                  ReorderedBallotContest(ballot.contests[i])])}

\* The cast ballots with ballots, contests and selections visited in any order.
ReorderedBallots(ballots) ==
    Shuffled([i \in DOMAIN ballots |-> ReorderedBallot(ballots[i])])

ReorderedShare(share) ==
    {[share EXCEPT !.recovered_parts = parts] : parts \in Reorderings(share.recovered_parts)}

ReorderedTallySelection(selection) ==
    {[selection EXCEPT !.shares = shares] :
        shares \in Shuffled([i \in DOMAIN selection.shares |->
                                ReorderedShare(selection.shares[i])])}

ReorderedTallyContest(contest) ==
    {[contest EXCEPT !.selections = selections] :
        selections \in Shuffled([i \in DOMAIN contest.selections |->
                                    ReorderedTallySelection(contest.selections[i])])}

\* The tally's contests with contests, selections, shares and parts in any order.
ReorderedTally(tally) ==
    Shuffled([i \in DOMAIN tally |-> ReorderedTallyContest(tally[i])])

\* The spoiled ballots of the tally, each a list of contests, in any order.
ReorderedSpoils(spoiled) ==
    Shuffled([i \in DOMAIN spoiled |-> ReorderedTally(spoiled[i])])

\* The stages whose loops visit ballots, contests, selections or shares.
VisitingStages == {3, 4, 6, 7, 9, 10}

\* What stage i has recorded in its set by now, had it visited these lists.
Recorded(i, ballots, tally, spoiled) ==
    CASE i = 3 -> ensure_all(EmptyConditions,
                             BallotSelectionsCalls(constants, context, ballots))
      [] i = 4 -> ensure_all(EmptyConditions,
                             VoteLimitsCalls(ContestsIndex(description_contests), ballots))
      [] i = 6 -> ensure_all(EmptyConditions,
                             BallotAggregationsCalls(constants, context,
                                 GuardiansIndex(coefficient_validation_sets), ballots, tally))
      [] i = 7 -> ensure_all(EmptyConditions,
                             MissingGuardiansCalls(constants, context,
                                 GuardiansIndex(coefficient_validation_sets), tally))
      [] i = 9 -> ensure_all(EmptyConditions,
                             TallyDecryptionCalls(constants,
                                 ContestsIndex(description_contests), tally)
                             \o (IF Ran(10)
                                 THEN SpoiledContestLabelCalls(
                                          ContestsIndex(description_contests), spoiled)
                                 ELSE <<>>))
      [] i = 10 -> ensure_all(EmptyConditions,
                              SpoilsCalls(constants, context,
                                  GuardiansIndex(coefficient_validation_sets), spoiled))

SameOutcome(conditions, recorded) ==
    /\ validate(conditions) = validate(recorded)
    /\ failed_labels(conditions) = failed_labels(recorded)

\* The stages that wrote to their set in the step that led here: the stage that
\* ran last, and with the tenth stage the ninth, whose set line 188 writes to.
WritingStages ==
    VisitingStages \cap ({Len(validated)} \cup (IF Ran(10) THEN {9} ELSE {}))

BallotSelections ==
    UNION {Range(contest.ballot_selections) :
              contest \in UNION {Range(ballot.contests) : ballot \in Range(ciphertext_ballots)}}

\* C13 as stated: once stage 3 has run, each of its ten membership labels is the
\* test of the named field over every selection of every contest of every
\* ballot: alpha, beta, a0, b0, a1 and b1 (proof_one_data) as q-th residues, c0,
\* c1, v0 and v1 in Z_q; a selection whose proof_one_data is no q-th residue
\* makes the b1 label false and the stage fail.
C13_MembershipConditions ==
    (Ran(3) /\ BallotSelections # {}) =>
        LET conditions == inv[Titles[3]]
        IN  /\ conditions["alpha in Zp^r"]
                 = \A s \in BallotSelections : is_valid_residue(s.ciphertext.pad)
            /\ conditions["beta in Zp^r"]
                 = \A s \in BallotSelections : is_valid_residue(s.ciphertext.data)
            /\ conditions["a0 in Zp^r"]
                 = \A s \in BallotSelections : is_valid_residue(s.proof.proof_zero_pad)
            /\ conditions["b0 in Zp^r"]
                 = \A s \in BallotSelections : is_valid_residue(s.proof.proof_zero_data)
            /\ conditions["a1 in Zp^r"]
                 = \A s \in BallotSelections : is_valid_residue(s.proof.proof_one_pad)
            /\ conditions["b1 in Zp^r"]
                 = \A s \in BallotSelections : is_valid_residue(s.proof.proof_one_data)
            /\ conditions["c0 in Zq"]
                 = \A s \in BallotSelections : is_in_bounds(s.proof.proof_zero_challenge)
            /\ conditions["c1 in Zq"]
                 = \A s \in BallotSelections : is_in_bounds(s.proof.proof_one_challenge)
            /\ conditions["v0 in Zq"]
                 = \A s \in BallotSelections : is_in_bounds(s.proof.proof_zero_response)
            /\ conditions["v1 in Zq"]
                 = \A s \in BallotSelections : is_in_bounds(s.proof.proof_one_response)
            /\ (\E s \in BallotSelections : ~is_valid_residue(s.proof.proof_one_data))
                  => ~Accepts(3)

\* The number of elements of the list that carry the id.
Occurrences(seq, id) ==
    Cardinality({i \in DOMAIN seq : seq[i].object_id = id})

\* get_selection answers None for the ballot because the contest id, or the
\* selection id in the contest of that id, appears more than once.
Repeated(ballot, contest_id, selection_id) ==
    \/ Occurrences(ballot.contests, contest_id) > 1
    \/ \E i \in DOMAIN ballot.contests :
          /\ ballot.contests[i].object_id = contest_id
          /\ Occurrences(ballot.contests, contest_id) = 1
          /\ Occurrences(ballot.contests[i].ballot_selections, selection_id) > 1

\* C14 as stated: when stage 6 has run and get_selection answered None for a CAST
\* ballot because the contest or the selection it looked for is repeated in the
\* ballot, the stage fails.
C14_DuplicateFails ==
    (/\ Ran(6)
     /\ \E cs \in TallySelections, ballot \in Range(ciphertext_ballots) :
           /\ ballot.state = "CAST"
           /\ Repeated(ballot, cs[1].object_id, cs[2].object_id)
           /\ get_selection(ballot, cs[1].object_id, cs[2].object_id) = None)
    => ~Accepts(6)

\* The contests of the ballots stage 4 visits.
BallotContests ==
    UNION {Range(ballot.contests) : ballot \in Range(ciphertext_ballots)}

\* The description the index holds for the id: the last one of that id.
DescriptionOf(contest_id) ==
    LET last == CHOOSE i \in DOMAIN description_contests :
                   /\ description_contests[i].object_id = contest_id
                   /\ \A j \in DOMAIN description_contests :
                         description_contests[j].object_id = contest_id => j <= i
    IN  description_contests[last]

DescribedBallotContests ==
    {contest \in BallotContests : contest.object_id \in DescribedContestIds}

PlaceholderCount(contest) ==
    Cardinality({i \in DOMAIN contest.ballot_selections :
                    contest.ballot_selections[i].is_placeholder_selection})

\* C15: once stage 4 has run, its set holds 'all contests appear in election
\* description' iff a contest was visited, true exactly when every visited
\* contest's object_id is one of the description's; 'placeholder options match
\* contest selection limit' iff a visited contest was found in the description,
\* true exactly when each found contest has as many placeholder selections as its
\* description's votes_allowed; 'V in Zq' iff a contest was visited, found or not,
\* true exactly when every visited contest's proof response is in Z_q; nothing
\* else; and a visited contest whose object_id the description lacks makes the
\* first label false and the stage fail.
C15_VoteLimits ==
    Ran(4) =>
        LET conditions == inv[Titles[4]]
        IN  /\ DOMAIN conditions
                 = (IF BallotContests # {}
                    THEN {"all contests appear in election description", "V in Zq"}
                    ELSE {})
                   \cup (IF DescribedBallotContests # {}
                         THEN {"placeholder options match contest selection limit"}
                         ELSE {})
            /\ BallotContests # {} =>
                  /\ conditions["all contests appear in election description"]
                       = (BallotContests = DescribedBallotContests)
                  /\ conditions["V in Zq"]
                       = \A contest \in BallotContests : contest.proof_response \in 0..(Q - 1)
            /\ DescribedBallotContests # {} =>
                  conditions["placeholder options match contest selection limit"]
                    = \A contest \in DescribedBallotContests :
                         PlaceholderCount(contest)
                           = DescriptionOf(contest.object_id).votes_allowed
            /\ BallotContests # DescribedBallotContests => ~Accepts(4) /\ result = "False"

\* C15 witness: stage 4 visited a contest whose object_id the description, which
\* holds a contest of another id, lacks, with a proof response outside Z_q; the
\* first label is false, the placeholder label is absent and the stage failed.
C15_Witness ==
    /\ Ran(4)
    /\ description_contests # <<>>
    /\ DescribedBallotContests = {}
    /\ \E contest \in BallotContests : contest.proof_response = Q
    /\ ~inv[Titles[4]]["all contests appear in election description"]
    /\ ~inv[Titles[4]]["V in Zq"]
    /\ "placeholder options match contest selection limit" \notin DOMAIN inv[Titles[4]]
    /\ ~Accepts(4)

RECURSIVE ProductOfFirstCommitments(_)
\* The product mod p, starting from 1, of the K_i0 the guardians carry.
ProductOfFirstCommitments(guardians) ==
    IF guardians = <<>> THEN 1
    ELSE LET commitments == Head(guardians).coefficient_commitments
         IN  ((IF commitments = <<>> THEN 1 ELSE commitments[1])
              * ProductOfFirstCommitments(Tail(guardians))) % P

\* Every coefficient proof of every guardian passes the two Schnorr checks.
SchnorrChecksPass ==
    \A guardian \in Range(coefficient_validation_sets) :
       \A proof \in Range(guardian.coefficient_proofs) :
          /\ proof.challenge = hash_elems(<<proof.public_key, proof.commitment>>)
          /\ Power(constants.generator, proof.response) % P
               = (proof.commitment * Power(proof.public_key, proof.challenge)) % P

\* C16 as stated: once stage 2 has worked on an artifact whose coefficient proofs
\* all pass its Schnorr checks, context.K equals the product mod p of the K_i0 of
\* all coefficient validation sets exactly when the stage's set holds the
\* assertion 'K = prod K_i mod p' as true.
C16_JointKeyRoundTrip ==
    (Titles[2] \in DOMAIN inv /\ SchnorrChecksPass) =>
        ((context.elgamal_public_key = ProductOfFirstCommitments(coefficient_validation_sets))
           <=> (/\ "K = prod K_i mod p" \in DOMAIN inv[Titles[2]]
                /\ inv[Titles[2]]["K = prod K_i mod p"]))

\* The labels each set of a call holds as false.
FailedLabels(sets) ==
    [t \in DOMAIN sets |-> failed_labels(sets[t])]

\* C17: of two calls of verify() on artifacts that differ in devices,
\* spoiled_ballots and ciphertext_tally only, when both have come equally far,
\* both have ended or neither has, with the same verdict, the same validate()
\* results and the same failed labels in every set.
C17_NonInterference ==
    Progress(pc, validated) = Progress(other.pc, other.validated) =>
        /\ pc = other.pc
        /\ result = other.result
        /\ validated = other.validated
        /\ FailedLabels(inv) = FailedLabels(other.inv)

\* C17 witness: both calls have returned after the tenth stage, on artifacts whose
\* devices, spoiled_ballots and ciphertext_tally all differ, with a plaintext
\* tally and spoiled ballots in the tally that stages 6 and 10 have visited.
C17_Witness ==
    /\ pc = "returned" /\ other.pc = "returned"
    /\ Ran(10) /\ Len(other.validated) = 10
    /\ result = "True" /\ other.result = "True"
    /\ devices # other.devices
    /\ spoiled_ballots # other.spoiled_ballots
    /\ ciphertext_tally # other.ciphertext_tally
    /\ TallySelections # {}
    /\ SpoiledSelections # {}
    /\ Range(ciphertext_ballots) # {}

====
